---------------------------- MODULE Spec2Model ----------------------------
(***************************************************************************)
(* A state-machine model of notebooks/maps_us_data.ipynb: the notebook's   *)
(* cells, executed top to bottom by one kernel, an uncaught exception      *)
(* ending the run.  The state is the kernel namespace (cases_vertical,     *)
(* cases, dates, latest_cases, cases_this_week, counties), the figures     *)
(* shown so far, the cell to run next and the exception raised, if any.    *)
(*                                                                         *)
(* Floating-point cells are modelled as exact rationals extended with      *)
(* NaN, +inf and -inf (IEEE-754 special values); rounding is not modelled. *)
(***************************************************************************)
EXTENDS Integers, Sequences, FiniteSets, TLC

VARIABLES csv_file, pc, error, bound,
          cases_vertical, cases, dates, latest_cases, cases_this_week,
          counties, figs

vars == <<csv_file, pc, error, bound, cases_vertical, cases, dates,
          latest_cases, cases_this_week, counties, figs>>

(***************************************************************************)
(* Bounds of the input family.                                             *)
(***************************************************************************)
MaxDates == 10

(***************************************************************************)
(* Floating point values.                                                  *)
(***************************************************************************)
RECURSIVE Gcd(_, _)
Gcd(a, b) == IF b = 0 THEN a ELSE Gcd(b, a % b)

Abs(x) == IF x < 0 THEN -x ELSE x

NaN == [k |-> "nan", n |-> 0, d |-> 1]
PosInf == [k |-> "inf", n |-> 1, d |-> 1]
NegInf == [k |-> "inf", n |-> -1, d |-> 1]

\* the rational n/d (d > 0) in lowest terms
Num(n, d) ==
    LET g == Gcd(Abs(n), d)
    IN  [k |-> "num", n |-> n \div g, d |-> d \div g]

FloatOf(i) == Num(i, 1)

IsNaN(x) == x.k = "nan"

\* x * y, y finite (the notebook multiplies by the literal 100.0)
FMul(x, y) ==
    IF x.k = "nan" \/ y.k = "nan" THEN NaN
    ELSE IF x.k = "inf" \/ y.k = "inf"
         THEN (IF x.n * y.n = 0 THEN NaN
               ELSE IF x.n * y.n > 0 THEN PosInf ELSE NegInf)
         ELSE Num(x.n * y.n, x.d * y.d)

\* numpy true division: x / 0 is +-inf (0 / 0 is nan), with a RuntimeWarning,
\* never an exception
FDiv(x, y) ==
    IF x.k = "nan" \/ y.k = "nan" THEN NaN
    ELSE IF x.k = "inf"
         THEN (IF y.k = "inf" THEN NaN
               ELSE IF (x.n > 0) = (y.n >= 0) THEN PosInf ELSE NegInf)
         ELSE IF y.k = "inf" THEN Num(0, 1)
         ELSE IF y.n = 0
              THEN (IF x.n = 0 THEN NaN
                    ELSE IF x.n > 0 THEN PosInf ELSE NegInf)
              ELSE IF y.n > 0 THEN Num(x.n * y.d, x.d * y.n)
                   ELSE Num(-(x.n * y.d), x.d * (-y.n))

\* x - y
FSub(x, y) ==
    IF x.k = "nan" \/ y.k = "nan" THEN NaN
    ELSE IF x.k = "inf"
         THEN (IF y.k = "inf" /\ y.n = x.n THEN NaN ELSE x)
         ELSE IF y.k = "inf"
              THEN (IF y.n > 0 THEN NegInf ELSE PosInf)
              ELSE Num(x.n * y.d - y.n * x.d, x.d * y.d)

\* x + y
FAdd(x, y) ==
    IF x.k = "nan" \/ y.k = "nan" THEN NaN
    ELSE IF x.k = "inf"
         THEN (IF y.k = "inf" /\ y.n # x.n THEN NaN ELSE x)
         ELSE IF y.k = "inf" THEN y
         ELSE Num(x.n * y.d + y.n * x.d, x.d * y.d)

\* x < y, neither NaN
FLess(x, y) ==
    IF x.k = "inf" THEN x.n < 0 /\ ~(y.k = "inf" /\ y.n < 0)
    ELSE IF y.k = "inf" THEN y.n > 0
    ELSE x.n * y.d < y.n * x.d

(***************************************************************************)
(* Column names.                                                           *)
(***************************************************************************)
OutlierCols == <<"Confirmed_Outlier", "Deaths_Outlier", "Recovered_Outlier">>

TsCols == <<"Confirmed", "Deaths", "Recovered",
            "Confirmed_Outlier", "Deaths_Outlier", "Recovered_Outlier">>

BaseCols == <<"State", "County", "Population">>

SnapshotCols == <<"Confirmed", "Confirmed_per_100", "Deaths", "Deaths_per_100">>

Range(s) == {s[i] : i \in DOMAIN s}


(***************************************************************************)
(* The input file outputs/us_counties_clean.csv.  A row is a record of the *)
(* file's cells: Date is the text of a calendar day <<year, month, day>>,  *)
(* the outlier flags are the texts "True" / "False".  The family below     *)
(* holds files with up to MaxDates calendar days (starting 2020-12-28) and *)
(* two counties, each of which may lack one day; the rows may be in        *)
(* ascending or descending order and one row may be repeated.              *)
(***************************************************************************)
ExampleConfirmed == <<10, 12, 15, 15, 20, 22, 25, 30, 33, 40>>

ConfirmedAt(shape, i) ==
    IF shape = "example"
    THEN (IF i <= Len(ExampleConfirmed) THEN ExampleConfirmed[i]
          ELSE 40 + 3 * (i - Len(ExampleConfirmed)))
    ELSE IF shape = "flat" THEN 0
    ELSE i * i

DateText(i) == IF i <= 4 THEN <<2020, 12, 27 + i>> ELSE <<2021, 1, i - 4>>

BoolText(b) == IF b THEN "True" ELSE "False"

CsvRow(fips, i, shape, pop) ==
    [FIPS |-> fips, Date |-> DateText(i),
     State |-> "Alabama",
     County |-> IF fips = 1001 THEN "Autauga" ELSE "Baldwin",
     Population |-> pop,
     Confirmed |-> ConfirmedAt(shape, i),
     Deaths |-> ConfirmedAt(shape, i) \div 4,
     Recovered |-> ConfirmedAt(shape, i) \div 2,
     Confirmed_Outlier |-> BoolText(i % 3 = 0),
     Deaths_Outlier |-> BoolText(FALSE),
     Recovered_Outlier |-> BoolText(i = 1)]

Reverse(s) == [i \in 1..Len(s) |-> s[Len(s) + 1 - i]]

DaysPresent(nd, miss) == SelectSeq([i \in 1..nd |-> i], LAMBDA i : i # miss)

CountyRows(fips, nd, miss, shape, pop) ==
    LET days == DaysPresent(nd, miss)
    IN  [j \in 1..Len(days) |-> CsvRow(fips, days[j], shape, pop)]

CsvFile(nd, miss1, miss2, shape1, pop1, pop2, order, dup) ==
    LET asc  == CountyRows(1001, nd, miss1, shape1, pop1)
                \o CountyRows(1003, nd, miss2, "square", pop2)
        rows == IF order = "asc" THEN asc ELSE Reverse(asc)
    IN  IF dup = "none" \/ rows = <<>> THEN rows
        ELSE IF dup = "same" THEN Append(rows, rows[1])
        ELSE Append(rows, [rows[1] EXCEPT !.Confirmed = @ + 1])

(***************************************************************************)
(* pd.read_csv(csv_file, dtype=cases_meta, parse_dates=["Date"])           *)
(***************************************************************************)
IsLeap(y) == (y % 4 = 0 /\ y % 100 # 0) \/ y % 400 = 0

DaysInMonth(y, m) ==
    IF m = 2 THEN (IF IsLeap(y) THEN 29 ELSE 28)
    ELSE IF m \in {4, 6, 9, 11} THEN 30 ELSE 31

RECURSIVE DaysBeforeMonth(_, _)
DaysBeforeMonth(y, m) ==
    IF m = 1 THEN 0 ELSE DaysBeforeMonth(y, m - 1) + DaysInMonth(y, m - 1)

RECURSIVE DaysBeforeYear(_)
DaysBeforeYear(y) ==
    IF y <= 2020 THEN 0
    ELSE DaysBeforeYear(y - 1) + (IF IsLeap(y - 1) THEN 366 ELSE 365)

\* the parsed Timestamp, as the number of the day counted from 2020-01-01
ParseDate(t) == DaysBeforeYear(t[1]) + DaysBeforeMonth(t[1], t[2]) + t[3]

\* a cell of a column whose dtype in cases_meta is bool
ParseBool(t) == IF t = "True" THEN 1 ELSE 0

ParseRow(r) ==
    [r EXCEPT !.Date = ParseDate(@),
              !.Confirmed_Outlier = ParseBool(@),
              !.Deaths_Outlier = ParseBool(@),
              !.Recovered_Outlier = ParseBool(@)]

ReadCsvFrame(file) ==
    [rows   |-> [i \in 1..Len(file) |-> ParseRow(file[i])],
     dtypes |-> [c \in Range(OutlierCols) |-> "bool"]]

(***************************************************************************)
(* DataFrame.set_index(["FIPS", "Date"], verify_integrity=True)            *)
(***************************************************************************)
Key(r) == <<r.FIPS, r.Date>>

\* variant: only neighbouring rows are compared
HasAdjacentDuplicateKeys(df) ==
    \E i \in 1..(Len(df.rows) - 1) : Key(df.rows[i]) = Key(df.rows[i + 1])

HasDuplicateKeys(df) ==
    \E i, j \in 1..Len(df.rows) : i < j /\ Key(df.rows[i]) = Key(df.rows[j])

NoError == "None"
DuplicateKeyError == "ValueError: Index has duplicate keys"
InsufficientHistoryError == "IndexError: index out of bounds for axis 1"
NetworkFetchError == "URLError"

\* variant: set_index without verify_integrity
SetIndexUnverified(df) == [err |-> NoError, df |-> df]

\* result of the whole expression of lines 61-65: a frame, or an exception
SetIndex(df) ==
    IF HasDuplicateKeys(df)
    THEN [err |-> DuplicateKeyError, df |-> df]
    ELSE [err |-> NoError, df |-> df]

NoFrame == [rows |-> <<>>, dtypes |-> <<>>]

(***************************************************************************)
(* Initial state: a fresh kernel and an input file.                         *)
(***************************************************************************)
Init ==
    /\ \E nd \in 0..MaxDates :
       \E miss1 \in {0, nd}, miss2 \in {0, 2, nd} :
       \E shape1 \in {"example", "flat"}, pop1 \in {0, 1000}, pop2 \in {0, 3} :
       \E order \in {"asc", "desc"}, dup \in {"none", "same", "diff"} :
          csv_file = CsvFile(nd, miss1, miss2, shape1, pop1, pop2, order, dup)
    /\ pc = "read_csv"
    /\ error = NoError
    /\ bound = {}
    /\ cases_vertical = NoFrame
    /\ cases = <<>>
    /\ dates = <<>>
    /\ latest_cases = <<>>
    /\ cases_this_week = <<>>
    /\ counties = "unset"
    /\ figs = <<>>

Running == error = NoError

\* cell 2 (lines 48-66)
ReadCsv ==
    /\ Running /\ pc = "read_csv"
    /\ LET r == SetIndex(ReadCsvFrame(csv_file))
       IN  IF r.err # NoError
           THEN /\ error' = r.err
                /\ UNCHANGED <<pc, bound, cases_vertical>>
           ELSE /\ cases_vertical' = r.df
                /\ bound' = bound \cup {"cases_vertical"}
                /\ pc' = "cast"
                /\ UNCHANGED error
    /\ UNCHANGED <<csv_file, cases, dates, latest_cases, cases_this_week,
                   counties, figs>>

\* cell 3 (lines 75-79): Series.astype(np.int8) of a bool column
AsTypeInt8(v) == IF v # 0 THEN 1 ELSE 0

CastOutlierColumns(df) ==
    [rows   |-> [i \in 1..Len(df.rows) |->
                    [c \in DOMAIN df.rows[i] |->
                        IF c \in Range(OutlierCols)
                        THEN AsTypeInt8(df.rows[i][c])
                        ELSE df.rows[i][c]]],
     dtypes |-> [c \in DOMAIN df.dtypes |->
                    IF c \in Range(OutlierCols) THEN "int8" ELSE df.dtypes[c]]]

CastOutliers ==
    /\ Running /\ pc = "cast"
    /\ cases_vertical' = CastOutlierColumns(cases_vertical)
    /\ pc' = "collapse"
    /\ UNCHANGED <<csv_file, error, bound, cases, dates, latest_cases,
                   cases_this_week, counties, figs>>

(***************************************************************************)
(* util.collapse_time_series(df, ts_cols): the time-series collapser.      *)
(* The date axis is built by sorted insertion of every row's date; each    *)
(* location gets, per time-series column, one cell per date of the axis,   *)
(* NaN where the location has no row for the date; the other columns take  *)
(* the location's first observed value.                                    *)
(***************************************************************************)
\* variant: a date already on the axis is inserted again
RECURSIVE InsertSortedKeepingDuplicates(_, _)
InsertSortedKeepingDuplicates(s, x) ==
    IF s = <<>> THEN <<x>>
    ELSE IF x <= Head(s) THEN <<x>> \o s
    ELSE <<Head(s)>> \o InsertSortedKeepingDuplicates(Tail(s), x)

RECURSIVE InsertSorted(_, _)
InsertSorted(s, x) ==
    IF s = <<>> THEN <<x>>
    ELSE IF x = Head(s) THEN s
    ELSE IF x < Head(s) THEN <<x>> \o s
    ELSE <<Head(s)>> \o InsertSorted(Tail(s), x)

RECURSIVE DateAxisOf(_, _)
DateAxisOf(rows, n) ==
    IF n = 0 THEN <<>> ELSE InsertSorted(DateAxisOf(rows, n - 1), rows[n].Date)

\* index of the first row of the frame with the key, 0 when there is none
RECURSIVE FirstRowAt(_, _, _)
FirstRowAt(rows, key, i) ==
    IF i > Len(rows) THEN 0
    ELSE IF Key(rows[i]) = key THEN i
    ELSE FirstRowAt(rows, key, i + 1)

RECURSIVE FirstRowOf(_, _, _)
FirstRowOf(rows, fips, i) ==
    IF i > Len(rows) THEN 0
    ELSE IF rows[i].FIPS = fips THEN i
    ELSE FirstRowOf(rows, fips, i + 1)

\* variant: a missing (location, date) is filled with zero
SeriesCellZeroFilled(rows, fips, date, col) ==
    LET i == FirstRowAt(rows, <<fips, date>>, 1)
    IN  IF i = 0 THEN FloatOf(0) ELSE FloatOf(rows[i][col])

SeriesCell(rows, fips, date, col) ==
    LET i == FirstRowAt(rows, <<fips, date>>, 1)
    IN  IF i = 0 THEN NaN ELSE FloatOf(rows[i][col])

CollapsedRow(rows, axis, fips, ts_cols) ==
    [c \in Range(BaseCols) \cup Range(ts_cols) |->
        IF c \in Range(ts_cols)
        THEN [i \in 1..Len(axis) |-> SeriesCell(rows, fips, axis[i], c)]
        ELSE rows[FirstRowOf(rows, fips, 1)][c]]

collapse_time_series(df, ts_cols) ==
    LET axis == DateAxisOf(df.rows, Len(df.rows))
        locs == {df.rows[i].FIPS : i \in 1..Len(df.rows)}
    IN  [cases |-> [f \in locs |-> CollapsedRow(df.rows, axis, f, ts_cols)],
         dates |-> axis]

\* cell 4 (lines 88-92)
Collapse ==
    /\ Running /\ pc = "collapse"
    /\ LET r == collapse_time_series(cases_vertical, TsCols)
       IN  /\ cases' = r.cases
           /\ dates' = r.dates
    /\ bound' = bound \cup {"cases", "dates"}
    /\ pc' = "per_capita"
    /\ UNCHANGED <<csv_file, error, cases_vertical, latest_cases,
                   cases_this_week, counties, figs>>

(***************************************************************************)
(* Per-capita columns (lines 101-105).                                     *)
(***************************************************************************)
Hundred == FloatOf(100)

\* variant: the scale factor is left out
PerHundredUnscaled(series, population) ==
    [i \in 1..Len(series) |-> FDiv(series[i], FloatOf(population))]

\* 100.0 * series / population, element-wise over one row of the tensor
PerHundred(series, population) ==
    [i \in 1..Len(series) |->
        FDiv(FMul(Hundred, series[i]), FloatOf(population))]

\* cases[name] = values: adds (or replaces) one column of the frame
SetColumn(frame, name, values) ==
    [f \in DOMAIN frame |->
        [c \in DOMAIN frame[f] \cup {name} |->
            IF c = name THEN values[f] ELSE frame[f][c]]]

\* variant: the raw count columns are normalised in place as well
WithPerCapitaInPlace(frame) ==
    LET per(c) == [f \in DOMAIN frame |->
                      PerHundred(frame[f][c], frame[f]["Population"])]
    IN  SetColumn(SetColumn(SetColumn(SetColumn(frame,
            "Confirmed_per_100", per("Confirmed")),
            "Deaths_per_100", per("Deaths")),
            "Confirmed", per("Confirmed")),
            "Deaths", per("Deaths"))

WithPerCapita(frame) ==
    LET one == SetColumn(frame, "Confirmed_per_100",
                   [f \in DOMAIN frame |->
                       PerHundred(frame[f]["Confirmed"], frame[f]["Population"])])
    IN  SetColumn(one, "Deaths_per_100",
            [f \in DOMAIN one |->
                PerHundred(one[f]["Deaths"], one[f]["Population"])])

PerCapita ==
    /\ Running /\ pc = "per_capita"
    /\ cases' = WithPerCapita(cases)
    /\ pc' = "latest"
    /\ UNCHANGED <<csv_file, error, bound, cases_vertical, dates, latest_cases,
                   cases_this_week, counties, figs>>

(***************************************************************************)
(* Snapshot tables (lines 114-131).  tensor[:, -k] is numpy's negative     *)
(* index on axis 1: the k-th column from the end, IndexError when the axis *)
(* has fewer than k positions.                                             *)
(***************************************************************************)
LastOffset == 1

\* variant: the week reaches back one position too few
WeekOffsetSeven == LastOffset + 6

WeekOffset == 8

TensorWidth(frame, col) ==
    IF DOMAIN frame = {} THEN 0
    ELSE Len(frame[CHOOSE f \in DOMAIN frame : TRUE][col])

TensorColumnFromEnd(frame, col, k) ==
    LET w == TensorWidth(frame, col)
    IN  IF k > w
        THEN [err |-> InsufficientHistoryError, values |-> <<>>]
        ELSE [err |-> NoError,
              values |-> [f \in DOMAIN frame |-> frame[f][col][w - k + 1]]]

\* cases[["State", "County", "Population"]].copy()
CopyOfColumns(frame, cols) ==
    [f \in DOMAIN frame |-> [c \in Range(cols) |-> frame[f][c]]]

\* variant: the position before the last one
LatestColumnSecondToLast(frame, col) ==
    TensorColumnFromEnd(frame, col, LastOffset + 1)

\* right-hand side of line 117
LatestColumn(frame, col) == TensorColumnFromEnd(frame, col, LastOffset)

\* variant: the earlier position is clamped to the start of the axis instead
\* of being out of bounds
ThisWeekColumnClamped(frame, col) ==
    LET w    == TensorWidth(frame, col)
        last == TensorColumnFromEnd(frame, col, LastOffset)
        prev == TensorColumnFromEnd(frame, col, IF WeekOffset > w THEN w ELSE WeekOffset)
    IN  IF last.err # NoError THEN last
        ELSE [err |-> NoError,
              values |-> [f \in DOMAIN frame |->
                             FSub(last.values[f], prev.values[f])]]

\* right-hand side of line 130
ThisWeekColumn(frame, col) ==
    LET last == TensorColumnFromEnd(frame, col, LastOffset)
        prev == TensorColumnFromEnd(frame, col, WeekOffset)
    IN  IF last.err # NoError THEN last
        ELSE IF prev.err # NoError THEN prev
        ELSE [err |-> NoError,
              values |-> [f \in DOMAIN frame |->
                             FSub(last.values[f], prev.values[f])]]

\* the for loop of lines 116-117, from its i-th column on
RECURSIVE LatestLoop(_, _, _)
LatestLoop(snapshot, frame, i) ==
    IF i > Len(SnapshotCols) THEN [err |-> NoError, df |-> snapshot]
    ELSE LET r == LatestColumn(frame, SnapshotCols[i])
         IN  IF r.err # NoError THEN [err |-> r.err, df |-> snapshot]
             ELSE LatestLoop(SetColumn(snapshot, SnapshotCols[i], r.values),
                             frame, i + 1)

\* the for loop of lines 129-130, from its i-th column on
RECURSIVE ThisWeekLoop(_, _, _)
ThisWeekLoop(snapshot, frame, i) ==
    IF i > Len(SnapshotCols) THEN [err |-> NoError, df |-> snapshot]
    ELSE LET r == ThisWeekColumn(frame, SnapshotCols[i])
         IN  IF r.err # NoError THEN [err |-> r.err, df |-> snapshot]
             ELSE ThisWeekLoop(SetColumn(snapshot, SnapshotCols[i], r.values),
                               frame, i + 1)

LatestCell(frame) == LatestLoop(CopyOfColumns(frame, BaseCols), frame, 1)

ThisWeekCell(frame) == ThisWeekLoop(CopyOfColumns(frame, BaseCols), frame, 1)

\* cell 6 (lines 114-118)
Latest ==
    /\ Running /\ pc = "latest"
    /\ LET r == LatestCell(cases)
       IN  /\ latest_cases' = r.df
           /\ error' = r.err
           /\ pc' = IF r.err = NoError THEN "this_week" ELSE pc
    /\ bound' = bound \cup {"latest_cases"}
    /\ UNCHANGED <<csv_file, cases_vertical, cases, dates, cases_this_week,
                   counties, figs>>

\* variant: the run goes on to the download after the index error
ThisWeekIgnoringError ==
    /\ Running /\ pc = "this_week"
    /\ LET r == ThisWeekCell(cases)
       IN  /\ cases_this_week' = r.df
           /\ error' = r.err
           /\ pc' = "fetch"
    /\ bound' = bound \cup {"cases_this_week"}
    /\ UNCHANGED <<csv_file, cases_vertical, cases, dates, latest_cases,
                   counties, figs>>

\* cell 7 (lines 127-131)
ThisWeek ==
    /\ Running /\ pc = "this_week"
    /\ LET r == ThisWeekCell(cases)
       IN  /\ cases_this_week' = r.df
           /\ error' = r.err
           /\ pc' = IF r.err = NoError THEN "fetch" ELSE pc
    /\ bound' = bound \cup {"cases_this_week"}
    /\ UNCHANGED <<csv_file, cases_vertical, cases, dates, latest_cases,
                   counties, figs>>

(***************************************************************************)
(* Download of the county boundaries (lines 140-142): urlopen either       *)
(* answers with the GeoJSON document or raises.                            *)
(***************************************************************************)
FetchOutcome(ok) ==
    IF ok THEN [err |-> NoError, counties |-> "FeatureCollection"]
    ELSE [err |-> NetworkFetchError, counties |-> counties]

FetchCounties ==
    /\ Running /\ pc = "fetch"
    /\ \E ok \in BOOLEAN :
         LET r == FetchOutcome(ok)
         IN  /\ counties' = r.counties
             /\ error' = r.err
             /\ pc' = IF r.err = NoError THEN "def_draw_map" ELSE pc
             /\ bound' = IF r.err = NoError THEN bound \cup {"counties"}
                         ELSE bound
    /\ UNCHANGED <<csv_file, cases_vertical, cases, dates, latest_cases,
                   cases_this_week, figs>>

\* cell 9 (lines 151-175): the def statement
DefineDrawMap ==
    /\ Running /\ pc = "def_draw_map"
    /\ bound' = bound \cup {"draw_map"}
    /\ pc' = "draw_latest_confirmed"
    /\ UNCHANGED <<csv_file, error, cases_vertical, cases, dates, latest_cases,
                   cases_this_week, counties, figs>>

(***************************************************************************)
(* draw_map(df, col_name, label_str) (lines 158-174) and the cells that    *)
(* call it.  A figure is recorded by the arguments handed to               *)
(* px.choropleth.                                                          *)
(***************************************************************************)
QuantilePercent == 95

\* "{:05d}".format(f), as the sequence of its digits
Format05d(f) == [i \in 1..5 |-> (f \div (10 ^ (5 - i))) % 10]

RECURSIVE InsertFloat(_, _)
InsertFloat(s, x) ==
    IF s = <<>> THEN <<x>>
    ELSE IF FLess(x, Head(s)) THEN <<x>> \o s
    ELSE <<Head(s)>> \o InsertFloat(Tail(s), x)

RECURSIVE SortedValues(_, _)
SortedValues(column, keys) ==
    IF keys = {} THEN <<>>
    ELSE LET f == CHOOSE g \in keys : TRUE
         IN  InsertFloat(SortedValues(column, keys \ {f}), column[f])

\* Series.quantile(0.95): linear interpolation between the two nearest ranks
Quantile(column) ==
    LET v    == SortedValues(column, DOMAIN column)
        m    == Len(v)
        h    == QuantilePercent * (m - 1)
        lo   == h \div 100 + 1
        frac == Num(h % 100, 100)
    IN  IF m = 0 THEN NaN
        ELSE IF h % 100 = 0 THEN v[lo]
        ELSE FAdd(v[lo], FMul(FSub(v[lo + 1], v[lo]), frac))

draw_map(df, col_name, label_str) ==
    LET valid == {f \in DOMAIN df : ~IsNaN(df[f][col_name])}
        color == [f \in valid |-> df[f][col_name]]
    IN  [title       |-> label_str,
         geojson     |-> counties,
         locations   |-> {Format05d(f) : f \in valid},
         color       |-> color,
         range_color |-> <<FloatOf(0), Quantile(color)>>,
         hover_name  |-> [f \in valid |-> df[f]["County"]]]

\* cell 10 (lines 184-186)
DrawLatestConfirmed ==
    /\ Running /\ pc = "draw_latest_confirmed"
    /\ figs' = Append(figs, draw_map(latest_cases, "Confirmed", "Confirmed Cases "))
    /\ pc' = "draw_week_confirmed"
    /\ UNCHANGED <<csv_file, error, bound, cases_vertical, cases, dates,
                   latest_cases, cases_this_week, counties>>

\* cell 11 (lines 195-197)
DrawWeekConfirmed ==
    /\ Running /\ pc = "draw_week_confirmed"
    /\ figs' = Append(figs, draw_map(cases_this_week, "Confirmed",
                                      "Confirmed Cases this Week"))
    /\ pc' = "draw_week_per_100"
    /\ UNCHANGED <<csv_file, error, bound, cases_vertical, cases, dates,
                   latest_cases, cases_this_week, counties>>

\* cell 13 (lines 217-219)
DrawWeekPer100 ==
    /\ Running /\ pc = "draw_week_per_100"
    /\ figs' = Append(figs, draw_map(cases_this_week, "Confirmed_per_100",
                                      "Confirmed per 100 this Week"))
    /\ pc' = "done"
    /\ UNCHANGED <<csv_file, error, bound, cases_vertical, cases, dates,
                   latest_cases, cases_this_week, counties>>

Next ==
    \/ ReadCsv \/ CastOutliers \/ Collapse \/ PerCapita
    \/ Latest \/ ThisWeek \/ FetchCounties \/ DefineDrawMap
    \/ DrawLatestConfirmed \/ DrawWeekConfirmed \/ DrawWeekPer100

Spec == Init /\ [][Next]_vars

(***************************************************************************)
(* Vocabulary of the properties.                                           *)
(***************************************************************************)
Cells == <<"read_csv", "cast", "collapse", "per_capita", "latest",
           "this_week", "fetch", "def_draw_map", "draw_latest_confirmed",
           "draw_week_confirmed", "draw_week_per_100", "done">>

CellNo(c) == CHOOSE i \in 1..Len(Cells) : Cells[i] = c

\* the cell has run to its end in this run
Completed(c) == CellNo(pc) > CellNo(c)

\* the LongTable rows of location f on date d
RowsAt(f, d) ==
    {i \in 1..Len(cases_vertical.rows) : Key(cases_vertical.rows[i]) = <<f, d>>}

LongDates == {cases_vertical.rows[i].Date : i \in 1..Len(cases_vertical.rows)}

LongLocations == {cases_vertical.rows[i].FIPS : i \in 1..Len(cases_vertical.rows)}

\* position of date d on the date axis (0 when absent)
AxisPosition(d) ==
    IF \E i \in 1..Len(dates) : dates[i] = d
    THEN CHOOSE i \in 1..Len(dates) : dates[i] = d
    ELSE 0

\* the input file holds two rows for the same location and calendar day
FileHasDuplicate ==
    \E i, j \in 1..Len(csv_file) :
        /\ i < j
        /\ csv_file[i].FIPS = csv_file[j].FIPS
        /\ csv_file[i].Date = csv_file[j].Date

(***************************************************************************)
(* C1.  Once the this-week cell has completed, every location's value in   *)
(* each of Confirmed, Confirmed_per_100, Deaths, Deaths_per_100 is the     *)
(* series value at the last position of the date axis minus the value      *)
(* seven positions before it; for the series 10,12,15,15,20,22,25,30,33,40 *)
(* the Confirmed delta is 25.                                              *)
(***************************************************************************)
C1_TrailingWeekDelta ==
    Completed("this_week") =>
        /\ Len(dates) >= 8
        /\ DOMAIN cases_this_week = DOMAIN cases
        /\ \A f \in DOMAIN cases : \A c \in Range(SnapshotCols) :
              LET last == Len(dates)
              IN  cases_this_week[f][c]
                    = FSub(cases[f][c][last], cases[f][c][last - 7])
        /\ \A f \in DOMAIN cases :
              cases[f]["Confirmed"] = [i \in 1..10 |-> FloatOf(ExampleConfirmed[i])]
                 => cases_this_week[f]["Confirmed"] = [k |-> "num", n |-> 25, d |-> 1]

C1_Witness ==
    /\ Completed("this_week")
    /\ \E f \in DOMAIN cases :
          /\ cases[f]["Confirmed"] = [i \in 1..10 |-> FloatOf(ExampleConfirmed[i])]
          /\ cases_this_week[f]["Confirmed"] = [k |-> "num", n |-> 25, d |-> 1]

(***************************************************************************)
(* C2.  With fewer than 8 dates on the axis (0 and 7 included) the         *)
(* this-week extraction raises the index error and no this-week value is   *)
(* ever assigned; with 8 or more it succeeds.                              *)
(***************************************************************************)
C2_InsufficientHistory ==
    Completed("per_capita") =>
        LET r == ThisWeekCell(cases)
        IN  /\ Len(dates) < 8 =>
                 /\ r.err = InsufficientHistoryError
                 /\ \A f \in DOMAIN r.df : DOMAIN r.df[f] = Range(BaseCols)
                 /\ ~Completed("this_week")
                 /\ \A f \in DOMAIN cases_this_week :
                       DOMAIN cases_this_week[f] \cap Range(SnapshotCols) = {}
                 /\ (pc = "this_week" /\ "cases_this_week" \in bound)
                       => error = InsufficientHistoryError
            /\ Len(dates) >= 8 =>
                 /\ r.err = NoError
                 /\ ~(pc = "this_week" /\ error # NoError)
                 /\ \A f \in DOMAIN r.df :
                       DOMAIN r.df[f] = Range(BaseCols) \cup Range(SnapshotCols)

C2_Witness ==
    /\ Len(dates) = 7
    /\ pc = "this_week"
    /\ error = InsufficientHistoryError
    /\ "cases_this_week" \in bound
    /\ DOMAIN cases_this_week # {}

(***************************************************************************)
(* C3 as stated.  Every per-capita cell is 100 * C[i] / Population for a   *)
(* non-zero population and not-a-number for a zero population, whatever    *)
(* the count.                                                              *)
(***************************************************************************)
PerCapitaPairs == {<<"Confirmed", "Confirmed_per_100">>, <<"Deaths", "Deaths_per_100">>}

\* 100 * x / population for a non-zero population, computed exactly
ExactPerHundred(x, population) ==
    IF x.k = "nan" THEN NaN
    ELSE LET n == 100 * x.n
             d == population * x.d
             g == Gcd(Abs(n), d)
         IN  [k |-> "num", n |-> n \div g, d |-> d \div g]

C3_ZeroPopulationIsNaN ==
    Completed("per_capita") =>
        \A f \in DOMAIN cases : \A p \in PerCapitaPairs :
            /\ Len(cases[f][p[2]]) = Len(cases[f][p[1]])
            /\ \A i \in 1..Len(cases[f][p[1]]) :
                  IF cases[f]["Population"] # 0
                  THEN cases[f][p[2]][i]
                         = ExactPerHundred(cases[f][p[1]][i], cases[f]["Population"])
                  ELSE cases[f][p[2]][i] = NaN

(***************************************************************************)
(* C3, amended.  Every per-capita cell is 100 * C[i] / Population for a    *)
(* non-zero population; for a zero population it is +infinity where the    *)
(* count is positive and not-a-number where the count is zero or a gap;    *)
(* the per-capita cell never raises.                                       *)
(***************************************************************************)
C3_PerCapitaDivision ==
    /\ pc = "per_capita" => error = NoError
    /\ Completed("per_capita") =>
        \A f \in DOMAIN cases : \A p \in PerCapitaPairs :
            /\ Len(cases[f][p[2]]) = Len(cases[f][p[1]])
            /\ \A i \in 1..Len(cases[f][p[1]]) :
                  LET x == cases[f][p[1]][i]
                      y == cases[f][p[2]][i]
                  IN  IF cases[f]["Population"] # 0
                      THEN y = ExactPerHundred(x, cases[f]["Population"])
                      ELSE IF x.k = "num" /\ x.n > 0
                           THEN y = [k |-> "inf", n |-> 1, d |-> 1]
                           ELSE y = [k |-> "nan", n |-> 0, d |-> 1]

C3_Witness ==
    /\ Completed("per_capita")
    /\ \E f \in DOMAIN cases : \E i \in 1..Len(dates) :
          /\ cases[f]["Population"] = 0
          /\ cases[f]["Confirmed"][i].k = "num"
          /\ cases[f]["Confirmed"][i].n > 0
          /\ cases[f]["Confirmed_per_100"][i].k = "inf"
    /\ \E f \in DOMAIN cases : \E i \in 1..Len(dates) :
          /\ cases[f]["Population"] = 0
          /\ cases[f]["Confirmed_per_100"][i].k = "nan"
    /\ \E f \in DOMAIN cases : \E i \in 1..Len(dates) :
          /\ cases[f]["Population"] = 3
          /\ cases[f]["Confirmed_per_100"][i] = [k |-> "num", n |-> 400, d |-> 3]

(***************************************************************************)
(* C4.  An input with a duplicated (Location, Date) pair ends the run with *)
(* the duplicate-key error in the cell that builds the LongTable: neither  *)
(* a LongTable nor a WideTable is ever bound, and no other cell runs.      *)
(***************************************************************************)
C4_DuplicateKeyIsFatal ==
    FileHasDuplicate =>
        /\ pc = "read_csv"
        /\ error \in {NoError, DuplicateKeyError}
        /\ bound = {}
        /\ cases_vertical = NoFrame /\ cases = <<>> /\ dates = <<>>
        /\ (error = NoError => ENABLED ReadCsv)
        /\ (error = DuplicateKeyError => ~ENABLED Next)

C4_Witness ==
    /\ FileHasDuplicate
    /\ error = DuplicateKeyError
    /\ \E i, j \in 1..Len(csv_file) :
          /\ i < j
          /\ csv_file[i].FIPS = csv_file[j].FIPS
          /\ csv_file[i].Date = csv_file[j].Date
          /\ csv_file[i].Confirmed # csv_file[j].Confirmed

(***************************************************************************)
(* C5.  After collapsing, the date axis holds exactly the distinct dates   *)
(* of the LongTable: as many positions as distinct dates, strictly         *)
(* ascending, also when the locations have rows for different dates.       *)
(***************************************************************************)
C5_DateAxis ==
    Completed("collapse") =>
        /\ Range(dates) = LongDates
        /\ Len(dates) = Cardinality(LongDates)
        /\ \A i, j \in 1..Len(dates) : i < j => dates[i] < dates[j]

C5_Witness ==
    /\ Completed("collapse")
    /\ Len(dates) >= 3
    /\ cases_vertical.rows[1].Date > cases_vertical.rows[2].Date
    /\ \E f, g \in LongLocations : \E d \in LongDates :
          RowsAt(f, d) # {} /\ RowsAt(g, d) = {}

(***************************************************************************)
(* C6.  In the WideTable every location of the LongTable has a row, every  *)
(* requested series has one cell per date of the axis, and the cell at     *)
(* position i holds the LongTable value for (location, dates[i]) where a   *)
(* row exists and the gap marker NaN where none does.                      *)
(***************************************************************************)
C6_SeriesAligned ==
    Completed("collapse") =>
        /\ DOMAIN cases = LongLocations
        /\ \A f \in DOMAIN cases : \A c \in Range(TsCols) :
              /\ Len(cases[f][c]) = Len(dates)
              /\ \A i \in 1..Len(dates) :
                    IF RowsAt(f, dates[i]) = {}
                    THEN cases[f][c][i] = [k |-> "nan", n |-> 0, d |-> 1]
                    ELSE \E r \in RowsAt(f, dates[i]) :
                            cases[f][c][i]
                              = [k |-> "num", n |-> cases_vertical.rows[r][c], d |-> 1]

C6_Witness ==
    /\ Completed("collapse")
    /\ \E f, g \in DOMAIN cases : \E i \in 1..Len(dates) :
          /\ cases[f]["Confirmed"][i].k = "nan"
          /\ cases[g]["Confirmed"][i].k = "num"
          /\ cases[g]["Confirmed"][i].n > 0
          /\ Len(cases[f]["Confirmed"]) = Len(cases[g]["Confirmed"])

(***************************************************************************)
(* C7.  Round trip: re-expanding the WideTable to one row per (location,   *)
(* date) of the LongTable gives back every requested field's scalar value. *)
(***************************************************************************)
\* the scalar of a cell that is no gap
ScalarOf(x) == IF x.k = "num" /\ x.d = 1 THEN x.n ELSE -1

\* the re-expanded row for the i-th LongTable key
Expanded(i) ==
    LET r == cases_vertical.rows[i]
    IN  [c \in Range(TsCols) |-> ScalarOf(cases[r.FIPS][c][AxisPosition(r.Date)])]

C7_RoundTrip ==
    Completed("collapse") =>
        \A i \in 1..Len(cases_vertical.rows) :
            /\ cases_vertical.rows[i].FIPS \in DOMAIN cases
            /\ AxisPosition(cases_vertical.rows[i].Date) # 0
            /\ \A c \in Range(TsCols) :
                  Expanded(i)[c] = cases_vertical.rows[i][c]

C7_Witness ==
    /\ Completed("collapse")
    /\ Len(cases_vertical.rows) >= 4
    /\ Len(cases_vertical.rows) < Cardinality(DOMAIN cases) * Len(dates)
    /\ \E i \in 1..Len(cases_vertical.rows) :
          /\ Expanded(i)["Confirmed"] = 33
          /\ Expanded(i)["Confirmed_Outlier"] = 1

(***************************************************************************)
(* C8.  Once the latest cell has completed, the Latest snapshot has one    *)
(* row per WideTable location and each of its four columns holds the       *)
(* series value at the last position of the date axis; a series ending in  *)
(* 40 with population 1000 gives Confirmed_per_100 = 4.0.                  *)
(***************************************************************************)
C8_LatestValue ==
    Completed("latest") =>
        /\ DOMAIN latest_cases = DOMAIN cases
        /\ \A f \in DOMAIN cases :
              /\ \A c \in Range(SnapshotCols) :
                    latest_cases[f][c] = cases[f][c][Len(dates)]
              /\ (/\ cases[f]["Population"] = 1000
                  /\ cases[f]["Confirmed"][Len(dates)] = [k |-> "num", n |-> 40, d |-> 1])
                    => latest_cases[f]["Confirmed_per_100"]
                         = [k |-> "num", n |-> 4, d |-> 1]

C8_Witness ==
    /\ Completed("latest")
    /\ \E f \in DOMAIN cases :
          /\ cases[f]["Population"] = 1000
          /\ latest_cases[f]["Confirmed"] = [k |-> "num", n |-> 40, d |-> 1]
          /\ latest_cases[f]["Confirmed_per_100"] = [k |-> "num", n |-> 4, d |-> 1]
    /\ Cardinality(DOMAIN latest_cases) = 2

(***************************************************************************)
(* Frame conditions of C9.                                                 *)
(***************************************************************************)
\* the step adds the two per-capita columns to the WideTable and leaves
\* every column it already had as it was
PerCapitaAppendOnly ==
    /\ pc = "per_capita"
    /\ DOMAIN cases' = DOMAIN cases
    /\ \A f \in DOMAIN cases :
          /\ DOMAIN cases'[f]
               = DOMAIN cases[f] \cup {"Confirmed_per_100", "Deaths_per_100"}
          /\ \A c \in DOMAIN cases[f] : cases'[f][c] = cases[f][c]

\* the step changes the dtype of the three outlier columns of the LongTable
\* from bool to int8, True becoming 1 and False 0, and nothing else
OutlierCastOnly ==
    /\ pc = "cast"
    /\ Len(cases_vertical'.rows) = Len(cases_vertical.rows)
    /\ \A c \in Range(OutlierCols) :
          cases_vertical.dtypes[c] = "bool" /\ cases_vertical'.dtypes[c] = "int8"
    /\ \A i \in 1..Len(cases_vertical.rows) :
          /\ DOMAIN cases_vertical'.rows[i] = DOMAIN cases_vertical.rows[i]
          /\ \A c \in DOMAIN cases_vertical.rows[i] :
                IF c \in Range(OutlierCols)
                THEN /\ cases_vertical'.rows[i][c] \in {0, 1}
                     /\ (cases_vertical'.rows[i][c] = 1)
                           <=> (csv_file[i][c] = "True")
                ELSE cases_vertical'.rows[i][c] = cases_vertical.rows[i][c]

WideTableFrame ==
    /\ ("cases" \in bound /\ cases' # cases) => PerCapitaAppendOnly
    /\ pc \in {"latest", "this_week"} => cases' = cases

(***************************************************************************)
(* C9 as stated.  Once loaded the LongTable never changes, the WideTable   *)
(* changes only by the appending of the per-capita columns, and the        *)
(* Latest and ThisWeek cells leave every WideTable column unchanged.       *)
(***************************************************************************)
C9_NoInPlaceMutation ==
    [][ /\ "cases_vertical" \in bound => cases_vertical' = cases_vertical
        /\ WideTableFrame ]_vars

(***************************************************************************)
(* C9, amended.  Once loaded the LongTable changes exactly in the cell     *)
(* that casts its three outlier columns from bool to int8 (truth values    *)
(* kept as 1 and 0, every other column unchanged); the WideTable changes   *)
(* only by the appending of the per-capita columns, and the Latest and     *)
(* ThisWeek cells leave every WideTable column unchanged.                  *)
(***************************************************************************)
C9_InPlaceMutationsAreCastAndPerCapita ==
    [][ /\ ("cases_vertical" \in bound /\ cases_vertical' # cases_vertical)
              => OutlierCastOnly
        /\ pc = "cast" => cases_vertical' # cases_vertical
        /\ WideTableFrame ]_vars

C9_Witness ==
    /\ pc = "done"
    /\ cases_vertical.dtypes["Confirmed_Outlier"] = "int8"
    /\ \E i \in 1..Len(csv_file) :
          /\ csv_file[i].Confirmed_Outlier = "True"
          /\ cases_vertical.rows[i].Confirmed_Outlier = 1
    /\ \E f \in DOMAIN cases :
          /\ "Confirmed_per_100" \in DOMAIN cases[f]
          /\ "Confirmed" \in DOMAIN latest_cases[f]
          /\ "Confirmed" \in DOMAIN cases_this_week[f]
          /\ "Confirmed" \in DOMAIN cases[f]

(***************************************************************************)
(* C10.  The cells run in the order load, cast, collapse, per-capita,      *)
(* latest, this-week, boundary fetch, render, one after the other; a cell  *)
(* that raises (duplicate key, insufficient history, failed download) ends *)
(* the run where it is: nothing runs after it, it is not run again, and no *)
(* map has been or will be rendered.                                       *)
(***************************************************************************)
C10_OrderAndFatalErrors ==
    /\ [][ /\ error = NoError
           /\ \/ error' = NoError /\ CellNo(pc') = CellNo(pc) + 1
              \/ error' # NoError /\ pc' = pc /\ figs' = figs ]_vars
    /\ [](error # NoError =>
            /\ figs = <<>>
            /\ "draw_map" \notin bound
            /\ \/ pc = "read_csv" /\ error = DuplicateKeyError
               \/ pc \in {"latest", "this_week"} /\ error = InsufficientHistoryError
               \/ pc = "fetch" /\ error = NetworkFetchError)
    /\ [](figs # <<>> =>
            /\ error = NoError
            /\ {"cases_vertical", "cases", "dates", "latest_cases",
                "cases_this_week", "counties", "draw_map"} \subseteq bound
            /\ Len(figs) = CellNo(pc) - CellNo("draw_latest_confirmed"))

C10_Witness ==
    /\ error = NetworkFetchError
    /\ pc = "fetch"
    /\ figs = <<>>
    /\ "cases_this_week" \in bound
    /\ "counties" \notin bound
    /\ ~ENABLED Next

=============================================================================
